---- MODULE Spec2Model ----
(***************************************************************************)
(* Market-data synchronisation and caching engine of Gxstar/funds, as it   *)
(* is sketched in DESIGN.md section 8 (sync_fund_history, RateLimiter,     *)
(* batch_sync_funds, fetch_with_retry, SyncScheduler) with the tables      *)
(* prices and cache_meta.                                                  *)
(*                                                                         *)
(* Wiring.  DESIGN.md gives the components one by one.  The provider call  *)
(* of sync_fund_history is made through fetch_with_retry (spec 4.4 step 3: *)
(* IncrementalSyncManager calls FetchClient.fetch), sync_single_fund of    *)
(* batch_sync_funds is sync_fund_history, and batch_sync_funds is the body *)
(* of an explicit "refresh all".  No line of DESIGN.md writes cache_meta:  *)
(* the writes of SyncMeta follow spec 4.4 steps 4 and 5.                   *)
(*                                                                         *)
(* Time.  One integer clock, now, in ticks.  The durations of the code     *)
(* (min_interval 1.5 s, poll 30 s, one minute, one day) are kept in their  *)
(* order, not in their ratio: a day of 86400 s is out of reach of an       *)
(* explicit-state check.                                                   *)
(***************************************************************************)
EXTENDS Integers, Sequences, FiniteSets, TLC

VARIABLES
    now,                \* time.time() / datetime.now(), in ticks
    last_request_time,  \* RateLimiter.last_request_time
    lock,               \* RateLimiter.lock: its holder, or "none"
    prices,             \* table prices: per fund, the rows in insertion order
    meta,               \* table cache_meta: per fund, one row
    published,          \* the provider: per fund, the dates it has a value for
    funds,              \* get_all_fund_codes(): the tracked funds, in order
    proc,               \* the two call sites: the scheduler loop and the user's request
    SYNCED_TODAY,       \* SyncScheduler.SYNCED_TODAY
    userOps,            \* the explicit requests the user has still to make
    grant,              \* history of acquire(): the number of grants, the time of the
                        \* last one, per call site
                        \* the calls not yet granted, and whether a grant came too early
    tries,              \* history of the provider calls: their number, and the grant
                        \* times of the first one and of the last one
    outcome,            \* history: per call site, the outcome of its last sync
    prev,               \* history: per fund, how its last finished sync ended
    batchLog,           \* history: per call site, what its current batch did per fund
    fires,              \* history: per checkpoint, the day of the last run started,
                        \* the runs started on that day and since the last clear(),
                        \* and the last day the loop was Idle when its minute began
    reply,              \* the last response of GET /api/market/{fund_code}/history
    ind,                \* the indicator panel: the series, the window, the moving
                        \* average computed from it and the figure displayed
    vue,                \* the Vue application: the route, the refs of the store and of
                        \* App.vue, and the requests in flight
    page,               \* the static page: currentFundCode, aiAnalysisCache, what the
                        \* element ai-result shows, and the requests in flight
    list,               \* FundList.vue: the search box, its timer and its requests
    dialog              \* AddFundDialog.vue: the form, the flags, the route and the
                        \* requests in flight

\* the state of the engine: the steps of a sync, of the scheduler and of the
\* world read and write these only
engineVars == <<now, last_request_time, lock, prices, meta, published, funds, proc,
                SYNCED_TODAY, userOps, grant, tries, outcome, prev, batchLog, fires>>

\* the state outside the engine
\* the state of the pages in the browser
viewVars == <<ind, vue, page, list, dialog>>

\* what a step of one page leaves alone
notInd == <<engineVars, reply, vue, page, list, dialog>>
notVue == <<engineVars, reply, ind, page, list, dialog>>
notPage == <<engineVars, reply, ind, vue, list, dialog>>
notList == <<engineVars, reply, ind, vue, page, dialog>>
notDialog == <<engineVars, reply, ind, vue, page, list>>

outerVars == <<reply, viewVars>>

vars == <<engineVars, outerVars>>

----------------------------------------------------------------------------
\* Bounds of the model

NumFunds == 2       \* the funds table: fund codes 1..NumFunds
MaxElapsed == 9     \* ticks the clock runs after 00:00 of the first day (Spec)
FetchElapsed == 4   \* ticks the clock runs after the first checkpoint (SpecFetch)
RaceElapsed == 3    \* ticks the clock runs after the first checkpoint (SpecRace)
RaceOps == 1        \* explicit requests of the user (SpecRace)
UserElapsed == 7    \* ticks the clock runs (SpecUser)
DaysElapsed == 11   \* ticks the clock runs after 00:00 of the first day (SpecDays)
UserOps == 2        \* explicit requests of the user (SpecUser)
CancelElapsed == 5  \* ticks the clock runs (SpecCancel)
ReadElapsed == 2    \* ticks the clock runs (SpecRead)
ReadOps == 2        \* requests of the history endpoint (SpecRead)
MaxLen == 7         \* points of a series of unit values (SpecMA)
MaxN == 3           \* the largest window of a moving average (SpecMA)
PageOps == 3        \* actions of the user on the static page (SpecPage)
SearchOps == 3      \* inputs into the search box (SpecSearch)
DialogOps == 5      \* actions of the user on the add-fund dialog (SpecDialog)
ViewOps == 2        \* actions of the user in the Vue application (SpecView)

\* Program constants, in ticks

min_interval == 2   \* RateLimiter(min_interval=1.5)
PollInterval == 1   \* asyncio.sleep(30)
MinuteLen == 2      \* one "%H:%M" value lasts two polls
MinutesPerDay == 3  \* the "%H:%M" values of a day: 0 is "00:00", 1 and 2 the checkpoints
max_retries == 3    \* fetch_with_retry(max_retries=3)
backoff == 2        \* fetch_with_retry(backoff=2)
Inception == 0      \* "基金成立日", the first date a fund has a value for
NoDate == -1        \* NULL in a DATE column

SYNC_TIMES == {1, 2}        \* ["14:50", "15:30"]
Midnight == 0               \* "00:00"
DayLen == MinuteLen * MinutesPerDay
StartTime == DayLen         \* the program starts at 00:00 of day 1
MaxTime == StartTime + MaxElapsed
RaceStart == StartTime + MinuteLen * 1      \* the first checkpoint of day 1
FetchEnd == RaceStart + FetchElapsed
RaceEnd == RaceStart + RaceElapsed
UserEnd == StartTime + UserElapsed
DaysEnd == StartTime + DaysElapsed
CancelEnd == StartTime + CancelElapsed
ReadStart == 2 * DayLen
ReadEnd == ReadStart + ReadElapsed

Funds == 1..NumFunds
Procs == {"sched", "user"}
Errors == {"NotFound", "Timeout"}
Permanent == {"NotFound"}       \* the errors a retry cannot help with

Day(t) == t \div DayLen                         \* today, as a date
Minute(t) == (t % DayLen) \div MinuteLen        \* now.strftime("%H:%M")

Max2(a, b) == IF a >= b THEN a ELSE b
MaxOf(S) == CHOOSE x \in S : \A y \in S : y <= x

RECURSIVE Pow(_, _)
Pow(b, n) == IF n = 0 THEN 1 ELSE b * Pow(b, n - 1)

RECURSIVE Ascending(_)
Ascending(S) ==
    IF S = {} THEN <<>>
    ELSE LET m == CHOOSE x \in S : \A y \in S : x <= y
         IN <<m>> \o Ascending(S \ {m})

RECURSIVE Reverse(_)
Reverse(s) == IF s = <<>> THEN <<>> ELSE Reverse(Tail(s)) \o <<Head(s)>>

----------------------------------------------------------------------------
\* CacheStore: the tables prices and cache_meta

Dates(rows) == {rows[i].date : i \in DOMAIN rows}

\* db.get_latest_price_date(fund_code): the latest cached date, or NULL
get_latest_price_date(f) ==
    IF prices[f] = <<>> THEN NoDate ELSE MaxOf(Dates(prices[f]))

\* (mutant) the table without its unique key
NoUniqueKey(rows, pt) == TRUE

\* A row whose (fund_code, date) is in the table is refused by the key.
UniqueKeyAllows(rows, pt) == pt.date \notin Dates(rows)

\* (mutant) INSERT OR REPLACE: a point of a cached date takes the row's place
batch_insert_replaces(rows, new_data) ==
    LET hit(d) == {j \in DOMAIN new_data : new_data[j].date = d}
        kept == [i \in DOMAIN rows |->
                   IF hit(rows[i].date) = {} THEN rows[i]
                   ELSE new_data[CHOOSE j \in hit(rows[i].date) : TRUE]]
    IN kept \o SelectSeq(new_data, LAMBDA pt : pt.date \notin Dates(rows))

\* (mutant) one refused point rolls the whole batch back
batch_insert_aborts(rows, new_data) ==
    IF \E i \in DOMAIN new_data : ~UniqueKeyAllows(rows, new_data[i])
        THEN rows ELSE rows \o new_data

\* db.batch_insert_prices(new_data) under UNIQUE(fund_code, date): the points
\* are inserted in the order given; a refused point is skipped (appendPoints
\* of the spec: re-inserting a cached date is a no-op).
RECURSIVE batch_insert_prices(_, _)
batch_insert_prices(rows, new_data) ==
    IF new_data = <<>> THEN rows
    ELSE batch_insert_prices(
             IF UniqueKeyAllows(rows, Head(new_data))
                 THEN Append(rows, Head(new_data)) ELSE rows,
             Tail(new_data))

\* cache_meta after a successful fetch (spec 4.4 step 4)
NewLastSyncDate(new_data, toDate) ==
    IF new_data = <<>> THEN toDate ELSE MaxOf(Dates(new_data))

MetaSynced(new_data, toDate) ==
    [last_sync_date |-> NewLastSyncDate(new_data, toDate),
     sync_status |-> "synced", error_message |-> "none"]

\* (mutant) the failure stores the error and leaves the status alone
MetaFailedKeepsStatus(old, e) == [old EXCEPT !.error_message = e]

\* cache_meta after a failed fetch (spec 4.4 step 5)
MetaFailed(old, e) ==
    [last_sync_date |-> old.last_sync_date,
     sync_status |-> "failed", error_message |-> e]

----------------------------------------------------------------------------
\* The provider

Quote(f, d) == 100 + 10 * f + d

\* One point of a response, with the columns of the table prices.  The
\* provider may have changed its figures for the dates in revised since it
\* last served them.
Point(f, d, revised) ==
    LET v == Quote(f, d) + (IF d \in revised THEN 1 ELSE 0)
    IN [date |-> d, net_value |-> v, accum_value |-> v + 100,
        growth_rate |-> v - Quote(f, d - 1)]

\* The revisions a response can carry that the cache could notice: none, or
\* one of every date of the range that is cached already.
Revisions(f, from, to) == {{}, {d \in Dates(prices[f]) : from <= d /\ d <= to}}

\* akshare.get_fund_history(fund_code, start_date, end_date): the values the
\* provider has in the range, in ascending or descending order of date
Response(f, from, to, rev, revised) ==
    LET ds == Ascending({d \in published[f] : from <= d /\ d <= to})
        pts == [i \in DOMAIN ds |-> Point(f, ds[i], revised)]
    IN IF rev THEN Reverse(pts) ELSE pts

----------------------------------------------------------------------------
\* The two call sites.  pc:
\*   "idle"      the user has no request running
\*   "sleep"     SyncScheduler.start, in asyncio.sleep(30) until wake (Idle)
\*   "Stopped"   SyncScheduler.start has ended: an exception left the loop
\*   "sync"      at the first line of sync_fund_history(fund)
\*   "lim_wait"  in acquire(), waiting for the lock
\*   "lim_sleep" in acquire(), holding the lock, in time.sleep until wake
\*   "fetch"     in fetch_with_retry, the provider call in flight
\*   "backoff"   in fetch_with_retry, in asyncio.sleep(wait_time) until wake
\* mode: "checkpoint" (sync_all_funds), "batch" (batch_sync_funds),
\*       "single" (one sync asked for by the user)
\* idx:  the position in funds of the loop of a batch
\* ctx:  who called acquire(): "batch" (batch_sync_funds) or "fetch" (fetch_with_retry)
\* cancel: the cancellation signal has been sent to this call site
\* e:    in "backoff", the exception the provider call has raised
\* blocked: history, the ticks this call of acquire() could not go on: the
\*       lock was held by a caller asleep in time.sleep, or its own
\*       time.sleep had not ended
\* contended: history, this call of acquire() has waited for the lock so
\* succ: history, how the sync of this fund that ended last before this one
\*       began has ended ("ok", "err"), "none" when something happened to the
\*       fund since, "stale" when this sync has run into the next day

IdleRec ==
    [pc |-> "idle", mode |-> "none", idx |-> 0, fund |-> 0, force |-> FALSE,
     ctx |-> "none", from |-> 0, to |-> 0, attempt |-> 0, wake |-> 0,
     succ |-> "none", cur |-> 0, blocked |-> 0, contended |-> FALSE, e |-> "none",
     cancel |-> FALSE]

SleepRec(w) == [IdleRec EXCEPT !.pc = "sleep", !.wake = w]
StoppedRec == [IdleRec EXCEPT !.pc = "Stopped"]

\* the call sync_fund_history(f)
AtSync(mode, i, f, force, cur) ==
    [IdleRec EXCEPT !.pc = "sync", !.mode = mode, !.idx = i, !.fund = f,
                    !.force = force, !.cur = cur]

\* the call akshare_limiter.acquire() of batch_sync_funds before funds[i]
AtBatchAcquire(i) ==
    [IdleRec EXCEPT !.pc = "lim_wait", !.mode = "batch", !.idx = i,
                    !.fund = funds[i], !.ctx = "batch"]

\* the call site after it has observed the cancellation signal: the request
\* is over, the scheduler loop has ended (shutdown)
Halted(r) == IF r.mode = "checkpoint" THEN StoppedRec ELSE IdleRec

\* (mutant) the signal is never looked at
NeverObserved(r) == FALSE

\* the check of the cancellation signal, between two retries and between the
\* funds of a batch
Observed(r) == r.cancel

InSync(r) == r.pc \in {"sync", "lim_wait", "lim_sleep", "fetch", "backoff"}
InAcquire(r) == r.pc \in {"lim_wait", "lim_sleep"}

NoOutcome ==
    [fund |-> 0, updated |-> FALSE, err |-> "none", fetched |-> FALSE,
     skipped |-> 0, succ |-> "none", changed |-> FALSE,
     revised |-> FALSE]

NoBatch == [st |-> "none", res |-> [f \in Funds |-> "none"]]
NewBatch == [st |-> "running", res |-> [f \in Funds |-> "none"]]

AllFunds == [i \in 1..NumFunds |-> i]

\* no request of the history endpoint has been answered
NoReply == [n |-> 0, fund |-> 0, from |-> 0, to |-> 0, force_refresh |-> FALSE,
            need_sync |-> FALSE, data |-> <<>>, task |-> FALSE]

\* the Vue application just loaded, on the home route
Home == 0
NoToast == [kind |-> "none", text |-> ""]
NoVue == [route |-> Home, currentFund |-> 0, chartData |-> 0, recentTrades |-> 0,
          etfData |-> 0, aiAnalysis |-> 0, refreshing |-> FALSE, toast |-> NoToast,
          tasks |-> {}, ops |-> 0, selected |-> 0, failed |-> FALSE,
          err |-> [failed |-> FALSE, msg |-> ""]]

\* the static page just loaded: no fund selected, the placeholder shown
Placeholder == [kind |-> "placeholder", fund |-> 0]
NoPage == [currentFundCode |-> 0, aiAnalysisCache |-> {}, aiResult |-> Placeholder,
           tasks |-> {}, ops |-> 0]

\* FundList just mounted: searchResults = [], no timer, nothing typed
NoTimer == [on |-> FALSE, keyword |-> <<>>]
NoList == [searchResults |-> {}, searching |-> FALSE, searchTimeout |-> NoTimer,
           tasks |-> {}, ops |-> 0, last |-> <<>>, failed |-> FALSE]

\* AddFundDialog just mounted, on the home route
HomeRoute == [name |-> "home", code |-> ""]
NoDialog == [dialogVisible |-> FALSE, fund_code |-> "", loading |-> FALSE,
             message |-> "none", route |-> HomeRoute, tasks |-> {}, ops |-> 0,
             submitted |-> "", event |-> "none"]

\* no series has been loaded into the indicator panel
NoInd == [values |-> <<>>, n |-> 0, ma |-> <<>>, done |-> FALSE,
          shown |-> [dash |-> TRUE, fixed4 |-> 0]]

\* the state outside the engine when the page has just been opened
OuterInit ==
    /\ reply = NoReply
    /\ ind = NoInd
    /\ vue = NoVue
    /\ page = NoPage
    /\ list = NoList
    /\ dialog = NoDialog

\* The state of the program at time t0 with the funds fs tracked and nothing
\* cached yet; the scheduler loop at the top of an iteration, or not started.
EngineAt(t0, fs, started, ops) ==
    /\ now = t0
    /\ last_request_time = 0
    /\ lock = "none"
    /\ prices = [f \in Funds |-> <<>>]
    /\ meta = [f \in Funds |->
                 [last_sync_date |-> NoDate, sync_status |-> "pending",
                  error_message |-> "none"]]
    /\ published = [f \in Funds |-> {}]
    /\ funds = fs
    /\ proc = [p \in Procs |->
                 IF p = "user" THEN IdleRec
                 ELSE IF started THEN SleepRec(t0) ELSE StoppedRec]
    /\ SYNCED_TODAY = {}
    /\ userOps = ops
    /\ grant = [n |-> 0, last |-> 0, minGap |-> min_interval,
                pending |-> [p \in Procs |-> 0]]
    /\ tries = [n |-> 0, first |-> 0, last |-> 0, minGap |-> min_interval]
    /\ outcome = [p \in Procs |-> NoOutcome]
    /\ prev = [f \in Funds |-> "none"]
    /\ batchLog = [p \in Procs |-> NoBatch]
    /\ fires = [cp \in SYNC_TIMES |->
                  [day |-> 0, today |-> 0, sinceReset |-> 0, idleDay |-> 0]]

\* The state of the program at time t0, the page just opened
InitAt(t0, fs, started, ops) ==
    /\ EngineAt(t0, fs, started, ops)
    /\ OuterInit

\* history: another sync of the fund has ended, or the provider has published
Forget(succ) == IF succ = "stale" THEN "stale" ELSE "none"

limVars == <<last_request_time, lock, grant, tries>>
cacheVars == <<prices, meta>>
schedVars == <<SYNCED_TODAY, fires>>
histVars == <<outcome, prev, batchLog>>

\* every entry into acquire() is counted (proc' is set by the action)
CountAcquires ==
    grant' = [grant EXCEPT !.pending =
                [q \in Procs |->
                   @[q] + IF proc'[q].pc = "lim_wait" /\ proc[q].pc # "lim_wait"
                              THEN 1 ELSE 0]]

----------------------------------------------------------------------------
\* Time

\* asyncio.sleep(30) of the scheduler loop ends on time
Due == proc["sched"].pc = "sleep" /\ proc["sched"].wake <= now

\* acquire() of q cannot go on before the next tick
Blocked(q) ==
    \/ proc[q].pc = "lim_sleep" /\ proc[q].wake > now
    \/ proc[q].pc = "lim_wait" /\ lock # "none" /\ proc[lock].wake > now

\* history of q over one tick
AfterTick(q) ==
    LET r == proc[q]
        a == IF Blocked(q)
                 THEN [r EXCEPT !.blocked = @ + 1,
                                !.contended = @ \/ r.pc = "lim_wait"]
                 ELSE r
    IN IF Day(now + 1) # Day(now) /\ InSync(a) /\ a.pc # "sync"
           THEN [a EXCEPT !.succ = "stale"] ELSE a

\* One tick of the clock.  History: a sync that began on an earlier day is
\* no predecessor "in immediate succession" of a sync of today (succ, prev).
Tick(limit) ==
    /\ now < limit
    /\ ~Due
    /\ now' = now + 1
    /\ fires' = [cp \in SYNC_TIMES |->
                   IF (now + 1) % DayLen = cp * MinuteLen /\ proc["sched"].pc = "sleep"
                       THEN [fires[cp] EXCEPT !.idleDay = Day(now + 1)]
                       ELSE fires[cp]]
    /\ prev' = IF Day(now + 1) # Day(now) THEN [f \in Funds |-> "none"] ELSE prev
    /\ proc' = [q \in Procs |-> AfterTick(q)]
    /\ UNCHANGED <<limVars, cacheVars, published, funds, SYNCED_TODAY, userOps,
                   outcome, batchLog>>
    /\ UNCHANGED outerVars

\* The provider publishes, for a tracked fund, the value of a date not after
\* today and later than every date it has published for the fund.
Publish(f, d) ==
    /\ \E i \in DOMAIN funds : funds[i] = f
    /\ d \in Inception..Day(now)
    /\ \A e \in published[f] : e < d
    /\ published' = [published EXCEPT ![f] = @ \cup {d}]
    /\ prev' = [prev EXCEPT ![f] = "none"]
    /\ proc' = [q \in Procs |->
                  IF InSync(proc[q]) /\ proc[q].fund = f
                      THEN [proc[q] EXCEPT !.succ = Forget(@)] ELSE proc[q]]
    /\ UNCHANGED <<now, limVars, cacheVars, funds, schedVars, userOps,
                   outcome, batchLog>>
    /\ UNCHANGED outerVars

----------------------------------------------------------------------------
\* RateLimiter

\* (mutant) the elapsed time is added, not subtracted
wait_time_added(t, last) == min_interval + (t - last)

\* (mutant) the parentheses are missing
wait_time_unparenthesised(t, last) == min_interval - t - last

\* wait_time = self.min_interval - (now - self.last_request_time)
wait_time(t, last) == min_interval - (t - last)

\* (mutant) acquire() without the lock
NoLock(p) == TRUE

\* with self.lock:
LockFree(p) == lock = "none"

\* acquire(), from taking the lock to the start of time.sleep(wait_time)
AcquireEnter(p) ==
    /\ proc[p].pc = "lim_wait"
    /\ LockFree(p)
    /\ lock' = p
    /\ proc' = [proc EXCEPT ![p].pc = "lim_sleep",
                            ![p].wake = now + Max2(0, wait_time(now, last_request_time))]
    /\ UNCHANGED <<now, last_request_time, grant, tries, cacheVars, published, funds,
                   schedVars, userOps, histVars>>
    /\ UNCHANGED outerVars

Min2(a, b) == IF a <= b THEN a ELSE b

\* the time from the grant at last to one at t, as far as it is below
\* min_interval (last = 0: there was none, and the clock is far from 0)
Gap(last, t) == Min2(min_interval, t - last)

\* acquire(), from the end of time.sleep to the release of the lock; in
\* fetch_with_retry the provider call follows at once
AcquireReturn(p) ==
    /\ proc[p].pc = "lim_sleep"
    /\ now >= proc[p].wake
    /\ last_request_time' = now
    /\ lock' = "none"
    /\ grant' = [n |-> grant.n + 1,
                 last |-> now,
                 minGap |-> Min2(grant.minGap, Gap(grant.last, now)),
                 pending |-> [grant.pending EXCEPT ![p] = @ - 1]]
    /\ IF proc[p].ctx = "fetch"
         THEN /\ tries' = [n |-> tries.n + 1,
                           first |-> IF tries.n = 0 THEN now ELSE tries.first,
                           last |-> now,
                           minGap |-> Min2(tries.minGap, Gap(tries.last, now))]
              /\ proc' = [proc EXCEPT ![p].pc = "fetch", ![p].wake = 0,
                                      ![p].blocked = 0, ![p].contended = FALSE]
         ELSE /\ tries' = tries
              /\ proc' = [proc EXCEPT ![p].pc = "sync", ![p].ctx = "none", ![p].wake = 0,
                                      ![p].blocked = 0, ![p].contended = FALSE]
    /\ UNCHANGED <<now, cacheVars, published, funds, schedVars, userOps, histVars>>
    /\ UNCHANGED outerVars

----------------------------------------------------------------------------
\* Control returns from sync_fund_history(f) to its caller, res being "noop"
\* (nothing to fetch), "ok" (fetched and stored) or "err" (the fetch raised).
\*   the user's single sync : the request ends
\*   batch_sync_funds       : try/except, the loop goes on with the next fund
\*   sync_all_funds         : no try/except, an exception leaves the loop and
\*                            SyncScheduler.start; after the last fund start
\*                            goes on: SYNCED_TODAY.add(sync_time), the 00:00
\*                            test on the current_time of this iteration, sleep
AfterSync(r, res) ==
    CASE r.mode = "single" -> IdleRec
      [] r.mode = "batch" ->
            IF r.idx < Len(funds)
                THEN IF Observed(r) THEN Halted(r) ELSE AtBatchAcquire(r.idx + 1)
                ELSE IdleRec
      [] r.mode = "checkpoint" ->
            IF res = "err" THEN StoppedRec
            ELSE IF r.idx < Len(funds)
                THEN IF Observed(r) THEN Halted(r)
                     ELSE AtSync("checkpoint", r.idx + 1, funds[r.idx + 1], FALSE, r.cur)
                ELSE SleepRec(now + PollInterval)

\* (mutant) the end of a refresh-all is booked like the end of a checkpoint run
RunDoneAnyMode(r, res) == res # "err" /\ r.idx = Len(funds)

RunDone(r, res) == r.mode = "checkpoint" /\ res # "err" /\ r.idx = Len(funds)

Return(p, res) ==
    LET r == proc[p]
        f == r.fund
        cleared == RunDone(r, res) /\ r.cur = Midnight
    IN /\ proc' = [q \in Procs |->
                     IF q = p THEN AfterSync(r, res)
                     ELSE IF InSync(proc[q]) /\ proc[q].fund = f
                         THEN [proc[q] EXCEPT !.succ = Forget(@)] ELSE proc[q]]
       /\ SYNCED_TODAY' =
            IF RunDone(r, res)
                THEN IF cleared THEN {} ELSE SYNCED_TODAY \cup {r.cur}
                ELSE SYNCED_TODAY
       /\ fires' = IF cleared
                      THEN [cp \in SYNC_TIMES |-> [fires[cp] EXCEPT !.sinceReset = 0]]
                      ELSE fires
       /\ batchLog' =
            IF r.mode \in {"batch", "checkpoint"}
                THEN [batchLog EXCEPT
                        ![p].res[f] = res,
                        ![p].st = IF r.mode = "checkpoint" /\ res = "err" THEN "aborted"
                                  ELSE IF r.idx = Len(funds) THEN "done"
                                  ELSE IF Observed(r) THEN "cancelled" ELSE "running"]
                ELSE batchLog
       /\ prev' = [prev EXCEPT ![f] = IF r.succ = "stale" THEN "none"
                                       ELSE IF res = "err" THEN "err" ELSE "ok"]
       /\ CountAcquires

----------------------------------------------------------------------------
\* IncrementalSyncManager: sync_fund_history

\* (mutant) every sync is a full backfill
start_date_from_inception(last_date) == Inception

\* (mutant) the range starts at the latest cached date itself
start_date_inclusive(last_date) == IF last_date # NoDate THEN last_date ELSE Inception

\* start_date = last_date + 1 day if last_date else "基金成立日"
start_date(last_date) == IF last_date # NoDate THEN last_date + 1 ELSE Inception

\* (mutant) the test lets the day after today through
ShouldFetchOffByOne(start, end) == start <= end + 1

\* if start_date <= end_date:
ShouldFetch(start, end) == start <= end

\* spec 4.4 step 2: a forced sync fetches even when fromDate > toDate
Forced(r) == r.force

\* sync_fund_history, from its first line to the call of fetch_with_retry, or
\* to its return when there is nothing to fetch
SyncBegin(p) ==
    LET r == proc[p]
        f == r.fund
        start == start_date(get_latest_price_date(f))
        end == Day(now)
    IN /\ r.pc = "sync"
       /\ IF ShouldFetch(start, end) \/ Forced(r)
            THEN /\ proc' = [proc EXCEPT ![p] =
                               [r EXCEPT !.pc = "lim_wait", !.ctx = "fetch", !.from = start,
                                         !.to = end, !.attempt = 0, !.succ = prev[f]]]
                 /\ CountAcquires
                 /\ UNCHANGED <<schedVars, histVars>>
            ELSE /\ outcome' = [outcome EXCEPT ![p] =
                                  [fund |-> f, updated |-> FALSE, err |-> "none",
                                   fetched |-> FALSE, skipped |-> 0, succ |-> prev[f],
                                   changed |-> FALSE, revised |-> FALSE]]
                 /\ Return(p, "noop")
       /\ UNCHANGED <<now, last_request_time, lock, tries, cacheVars, published, funds,
                      userOps>>
       /\ UNCHANGED outerVars

\* the provider call returns the points: db.batch_insert_prices(new_data), the
\* write of cache_meta, and the return to the caller
FetchOk(p, rev) ==
    LET r == proc[p]
        f == r.fund
    IN /\ r.pc = "fetch"
       /\ \E revised \in Revisions(f, r.from, r.to) :
            LET new_data == Response(f, r.from, r.to, rev, revised)
                rows == batch_insert_prices(prices[f], new_data)
            IN /\ rev => Len(new_data) > 1
               /\ prices' = [prices EXCEPT ![f] = rows]
               /\ meta' = [meta EXCEPT ![f] = MetaSynced(new_data, r.to)]
               /\ outcome' = [outcome EXCEPT ![p] =
                                [fund |-> f, updated |-> new_data # <<>>, err |-> "none",
                                 fetched |-> TRUE,
                                 skipped |-> Len(new_data) - (Len(rows) - Len(prices[f])),
                                 succ |-> r.succ, changed |-> rows # prices[f],
                                 revised |-> revised # {}]]
       /\ Return(p, "ok")
       /\ UNCHANGED <<now, last_request_time, lock, tries, published, funds, userOps>>
       /\ UNCHANGED outerVars

\* wait_time = backoff ** attempt
backoff_time(attempt) == Pow(backoff, attempt)

\* if attempt == max_retries - 1: raise
LastAttempt(attempt) == attempt = max_retries - 1

\* the provider call raises e: fetch_with_retry sleeps and tries again, or
\* raises on its last attempt; sync_fund_history records the failure in
\* cache_meta and the exception reaches the caller
FetchFail(p, e) ==
    LET r == proc[p]
        f == r.fund
    IN /\ r.pc = "fetch"
       /\ IF LastAttempt(r.attempt)
            THEN /\ meta' = [meta EXCEPT ![f] = MetaFailed(meta[f], e)]
                 /\ outcome' = [outcome EXCEPT ![p] =
                                  [fund |-> f, updated |-> FALSE, err |-> e,
                                   fetched |-> TRUE, skipped |-> 0, succ |-> r.succ,
                                   changed |-> FALSE, revised |-> FALSE]]
                 /\ Return(p, "err")
            ELSE /\ proc' = [proc EXCEPT ![p].pc = "backoff", ![p].e = e,
                                         ![p].wake = now + backoff_time(r.attempt)]
                 /\ UNCHANGED <<meta, grant, schedVars, histVars>>
       /\ UNCHANGED <<now, last_request_time, lock, tries, prices, published, funds,
                      userOps>>
       /\ UNCHANGED outerVars

\* the end of asyncio.sleep(wait_time): the next attempt of the loop, unless
\* the cancellation signal is set
BackoffDone(p) ==
    /\ proc[p].pc = "backoff"
    /\ now >= proc[p].wake
    /\ IF Observed(proc[p])
         THEN /\ proc' = [proc EXCEPT ![p] = Halted(proc[p])]
              /\ batchLog' = IF proc[p].mode \in {"batch", "checkpoint"}
                                 THEN [batchLog EXCEPT ![p].st = "cancelled"]
                                 ELSE batchLog
              /\ UNCHANGED <<grant, outcome, prev>>
         ELSE /\ proc' = [proc EXCEPT ![p].pc = "lim_wait", ![p].attempt = @ + 1,
                                      ![p].wake = 0, ![p].e = "none"]
              /\ CountAcquires
              /\ UNCHANGED histVars
    /\ UNCHANGED <<now, last_request_time, lock, tries, cacheVars, published, funds,
                   schedVars, userOps>>
    /\ UNCHANGED outerVars

----------------------------------------------------------------------------
\* SyncScheduler.start: one iteration of the loop, at the end of its sleep

\* (mutant) the test without SYNCED_TODAY
MatchesTimeOnly(current_time, sync_time) == current_time = sync_time

\* if current_time == sync_time and sync_time not in self.SYNCED_TODAY
Matches(current_time, sync_time) ==
    current_time = sync_time /\ sync_time \notin SYNCED_TODAY

\* a checkpoint matches: await self.sync_all_funds()
SchedFire(cp) ==
    /\ Due
    /\ cp \in SYNC_TIMES
    /\ Matches(Minute(now), cp)
    /\ proc' = [proc EXCEPT !["sched"] =
                  AtSync("checkpoint", 1, funds[1], FALSE, Minute(now))]
    /\ fires' = [fires EXCEPT ![cp] =
                   [day |-> Day(now),
                    today |-> IF @.day = Day(now) THEN @.today + 1 ELSE 1,
                    sinceReset |-> @.sinceReset + 1,
                    idleDay |-> @.idleDay]]
    /\ batchLog' = [batchLog EXCEPT !["sched"] = NewBatch]
    /\ UNCHANGED <<now, limVars, cacheVars, published, funds, SYNCED_TODAY, userOps,
                   outcome, prev>>
    /\ UNCHANGED outerVars

\* no checkpoint matches: the 00:00 test, then asyncio.sleep(30)
SchedIdle ==
    /\ Due
    /\ \A cp \in SYNC_TIMES : ~Matches(Minute(now), cp)
    /\ IF Minute(now) = Midnight
         THEN /\ SYNCED_TODAY' = {}
              /\ fires' = [cp \in SYNC_TIMES |-> [fires[cp] EXCEPT !.sinceReset = 0]]
         ELSE UNCHANGED <<SYNCED_TODAY, fires>>
    /\ proc' = [proc EXCEPT !["sched"] = SleepRec(now + PollInterval)]
    /\ UNCHANGED <<now, limVars, cacheVars, published, funds, userOps, histVars>>
    /\ UNCHANGED outerVars

----------------------------------------------------------------------------
\* Explicit requests of the user

\* refresh all: batch_sync_funds(get_all_fund_codes())
RefreshAll ==
    /\ proc["user"].pc = "idle"
    /\ userOps > 0
    /\ userOps' = userOps - 1
    /\ proc' = [proc EXCEPT !["user"] = AtBatchAcquire(1)]
    /\ CountAcquires
    /\ batchLog' = [batchLog EXCEPT !["user"] = NewBatch]
    /\ UNCHANGED <<now, last_request_time, lock, tries, cacheVars, published, funds,
                   schedVars, outcome, prev>>
    /\ UNCHANGED outerVars

\* triggerSync(f, force)
TriggerSync(f, force) ==
    /\ proc["user"].pc = "idle"
    /\ userOps > 0
    /\ \E i \in DOMAIN funds : funds[i] = f
    /\ userOps' = userOps - 1
    /\ proc' = [proc EXCEPT !["user"] = AtSync("single", 0, f, force, 0)]
    /\ UNCHANGED <<now, limVars, cacheVars, published, funds, schedVars, histVars>>
    /\ UNCHANGED outerVars

\* db.get_prices(fund_code, start_date, end_date), readRange of the spec: the
\* cached rows of the range, ascending by date
get_prices_as_stored(f, from, to) ==
    SelectSeq(prices[f], LAMBDA row : from <= row.date /\ row.date <= to)

get_prices(f, from, to) ==
    LET rows == prices[f]
        ds == Ascending({d \in Dates(rows) : from <= d /\ d <= to})
    IN [i \in DOMAIN ds |-> rows[CHOOSE k \in DOMAIN rows : rows[k].date = ds[i]]]

\* (mutant) only an instrument that needs a sync gets one
StartsTaskOnNeedOnly(force_refresh, need) == need

\* if force_refresh or need_sync(fund_code):
StartsTask(force_refresh, need) == force_refresh \/ need

\* get_fund_history(fund_code, start_date, end_date, force_refresh): the
\* cached rows are read, the sync is handed to a background task, and the
\* response is returned.  need is what need_sync(fund_code) answers.  One
\* background task runs at a time: a request that would start a second one is
\* not made while the first one runs.
get_fund_history(f, from, to, force_refresh, need) ==
    LET cached_data == get_prices(f, from, to)
        task == StartsTask(force_refresh, need)
    IN /\ userOps > 0
       /\ \E i \in DOMAIN funds : funds[i] = f
       /\ userOps' = userOps - 1
       /\ IF task
            THEN /\ proc["user"].pc = "idle"
                 /\ proc' = [proc EXCEPT !["user"] = AtSync("single", 0, f, FALSE, 0)]
            ELSE UNCHANGED proc
       /\ reply' = [n |-> reply.n + 1, fund |-> f, from |-> from, to |-> to,
                    force_refresh |-> force_refresh, need_sync |-> need,
                    data |-> cached_data, task |-> task]
       /\ UNCHANGED <<now, limVars, cacheVars, published, funds, schedVars, histVars>>
       /\ UNCHANGED viewVars

----------------------------------------------------------------------------
\* IndicatorEngine and the indicator panel.  Unit values are in hundredths; a
\* mean is the fraction num / den, an absent entry has den = 0.

UnitValues == {100, 102, 105}

Absent == [num |-> 0, den |-> 0]

\* (mutant) an entry needs n points before it, the point itself not counted
DefinedAfterNPreceding(i, n) == i > n

\* the i-th entry (from 1) is defined when it closes a window of n points
Defined(i, n) == i >= n

\* the sum of the n values ending at index i, by a linear scan: the window
\* moves on by one point, taking the new value in and the oldest one out
RECURSIVE WindowSum(_, _, _)
WindowSum(values, n, i) ==
    IF i < n THEN 0
    ELSE IF i = n THEN (IF n = 1 THEN 0 ELSE WindowSum(values, n - 1, n - 1)) + values[n]
    ELSE WindowSum(values, n, i - 1) + values[i] - values[i - n]

\* MA(n): one entry per index of the series
MA(values, n) ==
    [i \in DOMAIN values |->
        IF Defined(i, n) THEN [num |-> WindowSum(values, n, i), den |-> n] ELSE Absent]

\* Number.toFixed(4) of a mean of hundredths: the nearest ten-thousandth
toFixed4(m) == (2 * 100 * m.num + m.den) \div (2 * m.den)

\* getLastValue(arr): the last entry that is not null, to four places, or '-'
getLastValue(arr) ==
    LET some == {i \in DOMAIN arr : arr[i] # Absent}
    IN IF some = {} THEN [dash |-> TRUE, fixed4 |-> 0]
       ELSE [dash |-> FALSE, fixed4 |-> toFixed4(arr[MaxOf(some)])]

\* updateIndicators(indicators), for the moving average of the loaded series
updateIndicators ==
    /\ ~ind.done
    /\ ind' = [ind EXCEPT !.ma = MA(ind.values, ind.n), !.done = TRUE,
                          !.shown = getLastValue(MA(ind.values, ind.n))]
    /\ UNCHANGED notInd

\* the cancellation signal is sent to a call site that has a sync under way
Cancel(p) ==
    /\ InSync(proc[p])
    /\ ~proc[p].cancel
    /\ proc' = [proc EXCEPT ![p].cancel = TRUE]
    /\ UNCHANGED <<now, limVars, cacheVars, published, funds, schedVars, userOps,
                   histVars>>
    /\ UNCHANGED outerVars

----------------------------------------------------------------------------
\* the steps of a sync, whoever takes them
Sync ==
    \/ \E p \in Procs : AcquireEnter(p)
    \/ \E p \in Procs : AcquireReturn(p)
    \/ \E p \in Procs : SyncBegin(p)
    \/ \E p \in Procs, rev \in BOOLEAN : FetchOk(p, rev)
    \/ \E p \in Procs, e \in Errors : FetchFail(p, e)
    \/ \E p \in Procs : BackoffDone(p)

Scheduler ==
    \/ \E cp \in SYNC_TIMES : SchedFire(cp)
    \/ SchedIdle

User ==
    \/ RefreshAll
    \/ \E f \in Funds, force \in BOOLEAN : TriggerSync(f, force)

World(limit) ==
    \/ Tick(limit)
    \/ \E f \in Funds, d \in Inception..Day(limit) : Publish(f, d)

\* The scheduler alone, every fund tracked, from 00:00 of the first day.
Init == InitAt(StartTime, AllFunds, TRUE, 0)
Next == World(MaxTime) \/ Sync \/ Scheduler
Spec == Init /\ [][Next]_vars

\* The scheduler alone, every fund tracked, from the first checkpoint of the
\* first day.
InitFetch == InitAt(RaceStart, AllFunds, TRUE, 0)
NextFetch == World(FetchEnd) \/ Sync \/ Scheduler
SpecFetch == InitFetch /\ [][NextFetch]_vars

\* The scheduler and explicit requests of the user on one fund, from the
\* first checkpoint of the first day.
InitRace == InitAt(RaceStart, <<1>>, TRUE, RaceOps)
NextRace == World(RaceEnd) \/ Sync \/ Scheduler \/ User
SpecRace == InitRace /\ [][NextRace]_vars

\* Explicit requests of the user on one fund, one after the other, the
\* scheduler not started.
InitUser == InitAt(StartTime, <<1>>, FALSE, UserOps)
NextUser == World(UserEnd) \/ Sync \/ User
SpecUser == InitUser /\ [][NextUser]_vars

\* The scheduler alone with one fund tracked, into the second day.
InitDays == InitAt(StartTime, <<1>>, TRUE, 0)
NextDays == World(DaysEnd) \/ Sync \/ Scheduler
SpecDays == InitDays /\ [][NextDays]_vars

\* One explicit request of the user over two funds, which may be sent the
\* cancellation signal, the scheduler not started.
InitCancel == InitAt(StartTime, <<1, 2>>, FALSE, 1)
NextCancel == World(CancelEnd) \/ Sync \/ User \/ Cancel("user")
SpecCancel == InitCancel /\ [][NextCancel]_vars

\* Requests of the history endpoint for one fund and the background syncs
\* they start, from 00:00 of the second day, the scheduler not started.
History ==
    \E f \in Funds, from \in Inception..Day(ReadEnd), to \in Inception..Day(ReadEnd),
       force_refresh \in BOOLEAN, need \in BOOLEAN :
        get_fund_history(f, from, to, force_refresh, need)

----------------------------------------------------------------------------
\* The Vue application: the store (stores/funds.js), the detail view
\* (FundDetailView.vue) and the refresh button (App.vue).  A fund, a chart, a
\* list of trades, an ETF analysis and an AI analysis are each written as the
\* code of the fund they belong to, 0 for null or empty.  vue.tasks holds the
\* requests in flight: the action of the user that led to it, the request, its
\* fund and the caller that awaits it.  History: vue.selected is the code of
\* the last call of selectFund, vue.failed tells that a request of selectFund
\* or loadChartData has failed, vue.err is the failure of the sync-all request
\* of the last refresh.

Msgs == {"", "timeout"}

\* fund.related_etf: the first fund has a related ETF, the others have none
related_etf(code) == IF code = 1 THEN code ELSE 0

Req(op, kind, code, caller) == [op |-> op, kind |-> kind, code |-> code, caller |-> caller]

Spawn(v, reqs) == [v EXCEPT !.tasks = @ \cup reqs]
Take(t) == [vue EXCEPT !.tasks = @ \ {t}]
Act(v) == [v EXCEPT !.ops = @ + 1]

\* selectFund(code), to its first await: fundAPI.get(code)
selectFund(v, code, caller, op) ==
    [Spawn(v, {Req(op, "get", code, caller)}) EXCEPT !.selected = code]

\* clearAIAnalysis()
clearAIAnalysis(v) == [v EXCEPT !.aiAnalysis = 0]

\* The route changes to /fund/code: the watchers of route.params.code clear
\* the analysis when the view showed another fund, and call loadFundData.
watchCode(v, code, op) ==
    LET v1 == IF v.route # Home /\ code # v.route THEN clearAIAnalysis(v) ELSE v
    IN selectFund([v1 EXCEPT !.route = code], code, "view", op)

\* The route changes to /: the detail view is unmounted; its first watcher
\* has run before that (cleared), or has not.
leave(v, cleared) ==
    [(IF cleared /\ v.route # Home THEN clearAIAnalysis(v) ELSE v) EXCEPT !.route = Home]

\* router.push of FundList.selectFund and of the home button
routerPush(code, cleared) ==
    /\ vue.ops < ViewOps
    /\ code # vue.route
    /\ vue' = IF code = Home THEN leave(Act(vue), cleared)
              ELSE watchCode(Act(vue), code, vue.ops + 1)
    /\ UNCHANGED notVue

\* changePeriod(p): loadChartData(route.params.code, p)
changePeriod ==
    /\ vue.ops < ViewOps
    /\ vue.route # Home
    /\ vue' = Spawn(Act(vue), {Req(vue.ops + 1, "chart", vue.route, "period")})
    /\ UNCHANGED notVue

\* getAIAnalysis(forceRefresh): getAISuggestion(route.params.code, forceRefresh),
\* to its await
getAIAnalysis(forceRefresh) ==
    /\ vue.ops < ViewOps
    /\ vue.route # Home
    /\ vue' = Spawn(IF forceRefresh THEN clearAIAnalysis(Act(vue)) ELSE Act(vue),
                    {Req(vue.ops + 1, "aiSuggest", vue.route, "view")})
    /\ UNCHANGED notVue

\* handleRefresh(), to the first await of refreshAll: marketAPI.syncAll().
\* The button does not take clicks while refreshing.
handleRefresh ==
    /\ vue.ops < ViewOps
    /\ ~vue.refreshing
    /\ vue' = Spawn([Act(vue) EXCEPT !.refreshing = TRUE, !.toast = NoToast,
                                      !.err = [failed |-> FALSE, msg |-> ""]],
                    {Req(vue.ops + 1, "syncAll", 0, "refresh")})
    /\ UNCHANGED notVue

\* handleRefresh: refreshAll has returned
handleRefreshOk(v) ==
    [v EXCEPT !.refreshing = FALSE, !.toast = [kind |-> "success", text |-> "refreshed"]]

\* error.message || 'refresh failed'
ErrorText(msg) == IF msg = "" THEN "refresh failed" ELSE msg

\* handleRefresh: catch (error), finally
handleRefreshCatch(v, msg) ==
    [v EXCEPT !.refreshing = FALSE, !.toast = [kind |-> "error", text |-> ErrorText(msg)]]

\* (mutant) the store logs the error and does not throw it again
refreshAllSwallows(v, msg) == handleRefreshOk(v)

\* refreshAll: catch (error) { console.error(...); throw error }
refreshAllThrows(v, msg) == handleRefreshCatch(v, msg)

\* selectFund has returned to its caller: loadFundData goes on to
\* loadAICache(code), refreshAll returns
selectFundReturns(v, t) ==
    IF t.caller = "view" THEN Spawn(v, {Req(t.op, "aiCache", t.code, "view")})
    ELSE handleRefreshOk(v)

\* selectFund has thrown: loadFundData shows the error and pushes /,
\* refreshAll throws it again
selectFundThrows(v, t, msg, cleared) ==
    IF t.caller = "view" THEN leave(v, cleared) ELSE refreshAllThrows(v, msg)

\* Promise.all of selectFund: the loads started with t that are still pending
Pending(v, t) ==
    {u \in v.tasks : u.op = t.op /\ u.caller = t.caller
                       /\ u.kind \in {"chart", "trades", "etf"}}

\* one of the loads of selectFund, or the one of changePeriod, has settled
loadSettled(v, t) ==
    IF t.caller = "period" \/ Pending(v, t) # {} THEN v ELSE selectFundReturns(v, t)

\* the answer of marketAPI.syncAll() in refreshAll
marketAPI_syncAll(t, ok, msg) ==
    /\ t \in vue.tasks /\ t.kind = "syncAll"
    /\ vue' = IF ok THEN Spawn(Take(t), {Req(t.op, "loadFunds", 0, "refresh")})
              ELSE [refreshAllThrows(Take(t), msg) EXCEPT
                        !.err = [failed |-> TRUE, msg |-> msg]]
    /\ UNCHANGED notVue

\* the answer of fundAPI.getAll() in loadFunds, called by refreshAll
fundAPI_getAll(t, ok, msg) ==
    /\ t \in vue.tasks /\ t.kind = "loadFunds"
    /\ vue' = IF ok THEN Spawn(Take(t), {Req(t.op, "holdings", 0, "refresh")})
              ELSE refreshAllThrows(Take(t), msg)
    /\ UNCHANGED notVue

\* the answer of holdingAPI.getSummary() in loadHoldingsSummary, which
\* swallows a failure; refreshAll goes on to selectFund of the current fund
holdingAPI_getSummary(t) ==
    /\ t \in vue.tasks /\ t.kind = "holdings"
    /\ vue' = IF vue.currentFund # 0
                THEN selectFund(Take(t), vue.currentFund, "refresh", t.op)
                ELSE handleRefreshOk(Take(t))
    /\ UNCHANGED notVue

\* the answer of fundAPI.get(code) in selectFund
fundAPI_get(t, ok, msg, cleared) ==
    /\ t \in vue.tasks /\ t.kind = "get"
    /\ vue' =
         IF ok
           THEN LET etf == related_etf(t.code)
                    v1 == [Take(t) EXCEPT !.currentFund = t.code,
                                          !.etfData = IF etf = 0 THEN 0 ELSE @]
                IN Spawn(v1, {Req(t.op, "chart", t.code, t.caller),
                              Req(t.op, "trades", t.code, t.caller)}
                             \cup (IF etf = 0 THEN {}
                                   ELSE {Req(t.op, "etf", etf, t.caller)}))
           ELSE [selectFundThrows(Take(t), t, msg, cleared) EXCEPT !.failed = TRUE]
    /\ UNCHANGED notVue

\* the answer of marketAPI.getChart(code, period) in loadChartData
marketAPI_getChart(t, ok) ==
    /\ t \in vue.tasks /\ t.kind = "chart"
    /\ vue' = loadSettled(IF ok THEN [Take(t) EXCEPT !.chartData = t.code]
                          ELSE [Take(t) EXCEPT !.failed = TRUE], t)
    /\ UNCHANGED notVue

\* the answer of tradeAPI.getAll(code, 5) in loadTradePreview
tradeAPI_getAll(t, ok) ==
    /\ t \in vue.tasks /\ t.kind = "trades"
    /\ vue' = loadSettled(IF ok THEN [Take(t) EXCEPT !.recentTrades = t.code]
                          ELSE [Take(t) EXCEPT !.failed = TRUE], t)
    /\ UNCHANGED notVue

\* the answer of etfAPI.getAnalysis(etfCode) in loadETFData
etfAPI_getAnalysis(t, ok) ==
    /\ t \in vue.tasks /\ t.kind = "etf"
    /\ vue' = loadSettled(IF ok THEN [Take(t) EXCEPT !.etfData = t.code]
                          ELSE [Take(t) EXCEPT !.etfData = 0, !.failed = TRUE], t)
    /\ UNCHANGED notVue

\* the answer of aiAPI.suggest(code, forceRefresh) in getAISuggestion: a
\* result, or an error (reported or thrown), which getAIAnalysis shows
getAISuggestion(t, ok) ==
    /\ t \in vue.tasks /\ t.kind = "aiSuggest"
    /\ vue' = IF ok THEN [Take(t) EXCEPT !.aiAnalysis = t.code] ELSE Take(t)
    /\ UNCHANGED notVue

\* the answer of aiAPI.suggest(code, false, true) in loadAICache: a cached
\* analysis, or none (no_cache, an error, a failure)
loadAICache(t, cached) ==
    /\ t \in vue.tasks /\ t.kind = "aiCache"
    /\ vue' = IF cached THEN [Take(t) EXCEPT !.aiAnalysis = t.code] ELSE Take(t)
    /\ UNCHANGED notVue

UserOfVue ==
    \/ \E code \in {Home} \cup Funds, cleared \in BOOLEAN : routerPush(code, cleared)
    \/ changePeriod
    \/ \E forceRefresh \in BOOLEAN : getAIAnalysis(forceRefresh)
    \/ handleRefresh

Answers ==
    \/ \E t \in vue.tasks, ok \in BOOLEAN, msg \in Msgs : marketAPI_syncAll(t, ok, msg)
    \/ \E t \in vue.tasks, ok \in BOOLEAN, msg \in Msgs : fundAPI_getAll(t, ok, msg)
    \/ \E t \in vue.tasks : holdingAPI_getSummary(t)
    \/ \E t \in vue.tasks, ok \in BOOLEAN, msg \in Msgs, cleared \in BOOLEAN :
          fundAPI_get(t, ok, msg, cleared)
    \/ \E t \in vue.tasks, ok \in BOOLEAN : marketAPI_getChart(t, ok)
    \/ \E t \in vue.tasks, ok \in BOOLEAN : tradeAPI_getAll(t, ok)
    \/ \E t \in vue.tasks, ok \in BOOLEAN : etfAPI_getAnalysis(t, ok)
    \/ \E t \in vue.tasks, ok \in BOOLEAN : getAISuggestion(t, ok)
    \/ \E t \in vue.tasks, cached \in BOOLEAN : loadAICache(t, cached)

\* The Vue application alone, opened on the home route, the engine at rest.
InitView == InitAt(StartTime, <<1>>, FALSE, 0)
NextView == UserOfVue \/ Answers
SpecView == InitView /\ [][NextView]_vars

----------------------------------------------------------------------------
\* The static page (static/js/app.js).  page.aiResult is what the element
\* ai-result shows: the placeholder, the loading line, an analysis (of the
\* fund given), the error the server reported, or the failure line.
\* page.aiAnalysisCache is the set of the funds that have an entry.

\* updateAIDisplay(fundCode)
updateAIDisplay(pg, fundCode) ==
    [pg EXCEPT !.aiResult = IF fundCode \in pg.aiAnalysisCache
                               THEN [kind |-> "analysis", fund |-> fundCode]
                               ELSE Placeholder]

\* selectFund(fundCode), to the await of loadFundDetail: fundAPI.get(fundCode)
page_selectFund(fundCode) ==
    /\ page.ops < PageOps
    /\ page' = [page EXCEPT !.ops = @ + 1, !.currentFundCode = fundCode,
                            !.tasks = @ \cup {[op |-> page.ops + 1, kind |-> "detail",
                                               code |-> fundCode]}]
    /\ UNCHANGED notPage

\* the answer of fundAPI.get(fundCode) in loadFundDetail, which ends with
\* updateAIDisplay(fundCode); a failure is logged
loadFundDetail(t, ok) ==
    /\ t \in page.tasks /\ t.kind = "detail"
    /\ page' = IF ok THEN updateAIDisplay([page EXCEPT !.tasks = @ \ {t}], t.code)
               ELSE [page EXCEPT !.tasks = @ \ {t}]
    /\ UNCHANGED notPage

\* getAISuggestion(), to its await: aiAPI.suggest(fundCode).  The button is
\* part of the detail of a selected fund.
page_getAISuggestion ==
    /\ page.ops < PageOps
    /\ page.currentFundCode # 0
    /\ page' = [page EXCEPT !.ops = @ + 1,
                            !.aiResult = [kind |-> "loading", fund |-> 0],
                            !.tasks = @ \cup {[op |-> page.ops + 1, kind |-> "suggest",
                                               code |-> page.currentFundCode]}]
    /\ UNCHANGED notPage

\* if (currentFundCode !== fundCode) return
StillOn(pg, fundCode) == pg.currentFundCode = fundCode

\* the answer of aiAPI.suggest(fundCode) in getAISuggestion: a result, an
\* error reported in the result, or an error thrown
page_aiAPI_suggest(t, answer) ==
    LET pg == [page EXCEPT !.tasks = @ \ {t}]
    IN /\ t \in page.tasks /\ t.kind = "suggest"
       /\ page' =
            IF answer = "thrown" THEN [pg EXCEPT !.aiResult = [kind |-> "failure", fund |-> 0]]
            ELSE IF ~StillOn(pg, t.code) THEN pg
            ELSE IF answer = "error" THEN [pg EXCEPT !.aiResult = [kind |-> "error", fund |-> 0]]
            ELSE [pg EXCEPT !.aiAnalysisCache = @ \cup {t.code},
                            !.aiResult = [kind |-> "analysis", fund |-> t.code]]
       /\ UNCHANGED notPage

\* The static page alone, just loaded, the engine at rest.
InitPage == InitAt(StartTime, <<1>>, FALSE, 0)
NextPage ==
    \/ \E fundCode \in Funds : page_selectFund(fundCode)
    \/ page_getAISuggestion
    \/ \E t \in page.tasks, ok \in BOOLEAN : loadFundDetail(t, ok)
    \/ \E t \in page.tasks, answer \in {"result", "error", "thrown"} :
          page_aiAPI_suggest(t, answer)
SpecPage == InitPage /\ [][NextPage]_vars

----------------------------------------------------------------------------
\* FundList.vue: the search box.  A keyword is the sequence of its
\* characters.  searchResults is the set of the keywords whose result list it
\* holds: empty for [], {k} for the list the server has for k.  History:
\* list.last is the keyword of the last input, list.failed tells that a
\* search request has failed.

Keywords == {<<>>, <<"a">>, <<"a", "b">>, <<"c", "d">>}

\* !keyword || keyword.length < 2
TooShort(keyword) == Len(keyword) < 2

\* handleSearch(keyword): clearTimeout, then [] for a short keyword, or a
\* timer of 300 ms
handleSearch(keyword) ==
    /\ list.ops < SearchOps
    /\ keyword # list.last
    /\ list' = IF TooShort(keyword)
                THEN [list EXCEPT !.ops = @ + 1, !.last = keyword,
                                  !.searchTimeout = NoTimer, !.searchResults = {}]
                ELSE [list EXCEPT !.ops = @ + 1, !.last = keyword,
                                  !.searchTimeout = [on |-> TRUE, keyword |-> keyword]]
    /\ UNCHANGED notList

\* the timer runs out: searching = true and fundStore.searchFunds(keyword),
\* to its await
searchTimeout ==
    /\ list.searchTimeout.on
    /\ list' = [list EXCEPT !.searchTimeout = NoTimer, !.searching = TRUE,
                            !.tasks = @ \cup {[op |-> list.ops,
                                               keyword |-> list.searchTimeout.keyword]}]
    /\ UNCHANGED notList

\* the answer of fundAPI.search(keyword) in searchFunds: result.data, or []
\* after a failure; the callback of the timer stores it
searchFunds(t, ok) ==
    /\ t \in list.tasks
    /\ list' = [list EXCEPT !.tasks = @ \ {t}, !.searching = FALSE,
                            !.searchResults = IF ok THEN {t.keyword} ELSE {},
                            !.failed = @ \/ ~ok]
    /\ UNCHANGED notList

\* The search box alone, the engine at rest.
InitSearch == InitAt(StartTime, <<1>>, FALSE, 0)
NextSearch ==
    \/ \E keyword \in Keywords : handleSearch(keyword)
    \/ searchTimeout
    \/ \E t \in list.tasks, ok \in BOOLEAN : searchFunds(t, ok)
SpecSearch == InitSearch /\ [][NextSearch]_vars

----------------------------------------------------------------------------
\* AddFundDialog.vue.  dialog.route is the route of the router;
\* dialog.message is the last ElMessage.  History: dialog.submitted is the
\* fund code of the form when it was last submitted, dialog.event is what
\* the last step was.

FundCodes == {"000001", "110022"}

\* `/fund/${code}`: the value is written out, undefined as "undefined"
DetailRoute(code) == [name |-> "fund-detail", code |-> code]

\* the value of await fundStore.addFund(form.value): addFund has no return
addFund_value(data) == "undefined"

\* fundStore.$patch({ showAddDialog: true }) and the subscription
showAddDialog ==
    /\ dialog.ops < DialogOps
    /\ ~dialog.dialogVisible
    /\ dialog' = [dialog EXCEPT !.ops = @ + 1, !.dialogVisible = TRUE,
                                !.fund_code = "", !.event = "opened"]
    /\ UNCHANGED notDialog

\* the user types into the input bound to form.fund_code
inputCode(code) ==
    /\ dialog.ops < DialogOps
    /\ dialog.dialogVisible
    /\ code # dialog.fund_code
    /\ dialog' = [dialog EXCEPT !.ops = @ + 1, !.fund_code = code, !.event = "typed"]
    /\ UNCHANGED notDialog

\* the cancel button: dialogVisible = false
cancelDialog ==
    /\ dialog.ops < DialogOps
    /\ dialog.dialogVisible
    /\ dialog' = [dialog EXCEPT !.ops = @ + 1, !.dialogVisible = FALSE,
                                !.event = "cancelled"]
    /\ UNCHANGED notDialog

\* handleSubmit(), to the await of addFund: fundAPI.add(data).  The button
\* does not take clicks while loading.
handleSubmit ==
    /\ dialog.ops < DialogOps
    /\ dialog.dialogVisible
    /\ ~dialog.loading
    /\ dialog' = IF dialog.fund_code = ""
                  THEN [dialog EXCEPT !.ops = @ + 1, !.message = "warning",
                                      !.event = "empty"]
                  ELSE [dialog EXCEPT !.ops = @ + 1, !.loading = TRUE,
                                      !.submitted = dialog.fund_code, !.event = "sent",
                                      !.tasks = @ \cup {[kind |-> "add",
                                                         data |-> dialog.fund_code]}]
    /\ UNCHANGED notDialog

\* handleSubmit: catch (error), finally
handleSubmitCatch(d) == [d EXCEPT !.message = "error", !.loading = FALSE, !.event = "failed"]

\* the answer of fundAPI.add(data) in addFund, which goes on to loadFunds()
fundAPI_add(t, ok) ==
    /\ t \in dialog.tasks /\ t.kind = "add"
    /\ dialog' = IF ok THEN [dialog EXCEPT !.tasks = (@ \ {t}) \cup
                                              {[kind |-> "loadFunds", data |-> t.data]},
                                           !.event = "loading"]
                  ELSE handleSubmitCatch([dialog EXCEPT !.tasks = @ \ {t}])
    /\ UNCHANGED notDialog

\* the answer of fundAPI.getAll() in loadFunds, called by addFund: addFund
\* returns and handleSubmit closes the dialog and pushes the route
addFund_loadFunds(t, ok) ==
    /\ t \in dialog.tasks /\ t.kind = "loadFunds"
    /\ dialog' = IF ok
                  THEN [dialog EXCEPT !.tasks = @ \ {t}, !.dialogVisible = FALSE,
                                      !.message = "success",
                                      !.route = DetailRoute(addFund_value(t.data)),
                                      !.loading = FALSE, !.event = "added"]
                  ELSE handleSubmitCatch([dialog EXCEPT !.tasks = @ \ {t}])
    /\ UNCHANGED notDialog

\* The dialog alone, the engine at rest.
InitDialog == InitAt(StartTime, <<1>>, FALSE, 0)
NextDialog ==
    \/ showAddDialog
    \/ \E code \in FundCodes \cup {""} : inputCode(code)
    \/ cancelDialog
    \/ handleSubmit
    \/ \E t \in dialog.tasks, ok \in BOOLEAN : fundAPI_add(t, ok)
    \/ \E t \in dialog.tasks, ok \in BOOLEAN : addFund_loadFunds(t, ok)
SpecDialog == InitDialog /\ [][NextDialog]_vars

\* The series of at most n points
RECURSIVE SeqsUpTo(_, _)
SeqsUpTo(S, n) ==
    IF n = 0 THEN {<<>>}
    ELSE LET shorter == SeqsUpTo(S, n - 1)
         IN shorter \cup {Append(s, v) : s \in {t \in shorter : Len(t) = n - 1}, v \in S}

\* The indicator panel alone: any series of at most MaxLen unit values and
\* any window of at most MaxN points, the engine at rest.
InitMA ==
    /\ EngineAt(StartTime, <<1>>, FALSE, 0)
    /\ reply = NoReply
    /\ vue = NoVue /\ page = NoPage /\ list = NoList /\ dialog = NoDialog
    /\ \E values \in SeqsUpTo(UnitValues, MaxLen), n \in 1..MaxN :
          ind = [NoInd EXCEPT !.values = values, !.n = n]
NextMA == updateIndicators
SpecMA == InitMA /\ [][NextMA]_vars

InitRead == InitAt(ReadStart, <<1>>, FALSE, ReadOps)
NextRead == World(ReadEnd) \/ Sync \/ History
SpecRead == InitRead /\ [][NextRead]_vars

----------------------------------------------------------------------------
\* Claims

\* C1  Rate spacing: the grants that precede two consecutive provider calls
\* of fetch_with_retry (first attempts and retries, of any fund) are at least
\* min_interval apart, so from the first of N calls to the N-th at least
\* (N - 1) * min_interval elapses.
C1_RateSpacing ==
    /\ tries.minGap >= min_interval
    /\ tries.n >= 1 => tries.last - tries.first >= (tries.n - 1) * min_interval

\* the third provider call of a run: the retry of the second fund's fetch,
\* after the fetch of the first fund
C1_Witness ==
    /\ tries.n >= 3
    /\ proc["sched"].pc = "fetch" /\ proc["sched"].attempt = 1 /\ proc["sched"].idx = 2

\* C10  Concurrent callers of the one RateLimiter are serialized: no two
\* grants are less than min_interval apart, and every acquire() call is
\* granted once, whatever the interleaving of the scheduler and the user.
C10_Serialized ==
    /\ grant.minGap >= min_interval
    /\ \A p \in Procs : grant.pending[p] = IF InAcquire(proc[p]) THEN 1 ELSE 0

\* one caller waits for the lock the other one sleeps under, after a grant
C10_Witness ==
    /\ grant.last # 0
    /\ \E p, q \in Procs :
          /\ p # q
          /\ lock = p /\ proc[p].pc = "lim_sleep" /\ proc[p].wake > now
          /\ proc[q].pc = "lim_wait"


\* C2  Monotonic cache: the last_sync_date of a fund never decreases, in any
\* step of any sync.
C2_Monotonic ==
    [][\A f \in Funds : meta'[f].last_sync_date >= meta[f].last_sync_date]_vars

\* C3  No duplicate points: the cached rows of a fund hold at most one row
\* per date (an insert of a cached date adds no row).
C3_NoDuplicates ==
    \A f \in Funds : Cardinality(Dates(prices[f])) = Len(prices[f])

\* a sync has inserted points of which some were cached already
C3_Witness ==
    \E p \in Procs : outcome[p].skipped > 0 /\ prices[outcome[p].fund] # <<>>

\* C4  T+1 no-op: a sync without force of a fund whose latest cached date is
\* today makes no provider call, takes no grant of the RateLimiter, returns
\* updated = false without error and leaves the cached rows alone.
C4_TPlusOneNoop ==
    [][\A p \in Procs :
          (/\ proc[p].pc = "sync"
           /\ proc'[p] # proc[p]
           /\ ~proc[p].force
           /\ get_latest_price_date(proc[p].fund) = Day(now))
          => (/\ tries' = tries
              /\ grant'.last = grant.last
              /\ last_request_time' = last_request_time
              /\ lock' = lock
              /\ prices' = prices
              /\ proc'[p].fund # proc[p].fund \/ ~InSync(proc'[p])
              /\ outcome'[p].fund = proc[p].fund
              /\ ~outcome'[p].fetched
              /\ ~outcome'[p].updated
              /\ outcome'[p].err = "none")]_vars

\* a sync has returned without a fetch, the latest cached date being today
C4_Witness ==
    \E p \in Procs :
        /\ outcome[p].fund # 0
        /\ ~outcome[p].fetched
        /\ get_latest_price_date(outcome[p].fund) = Day(now)

C6_Isolation ==
    \A p \in Procs :
        batchLog[p].st \in {"done", "aborted"} =>
            /\ batchLog[p].st = "done"
            /\ \A i \in DOMAIN funds :
                  LET f == funds[i]
                  IN /\ batchLog[p].res[f] # "none"
                     /\ batchLog[p].res[f] = "err" => meta[f].sync_status = "failed"
                     /\ batchLog[p].res[f] = "ok" => meta[f].sync_status = "synced"

\* C7  A checkpoint is consumed at most once per calendar day: sync_all_funds
\* starts at most once for it on a day, and at most once between two clears
\* of SYNCED_TODAY.
C7_OncePerDay ==
    \A cp \in SYNC_TIMES : fires[cp].today <= 1 /\ fires[cp].sinceReset <= 1

\* on the second day, the loop has polled again inside the minute of a
\* checkpoint whose run of that day is over
C7_Witness ==
    \E cp \in SYNC_TIMES :
        /\ Day(now) = Day(StartTime) + 1
        /\ Minute(now) = cp
        /\ cp \in SYNCED_TODAY
        /\ fires[cp].day = Day(now)
        /\ proc["sched"].pc = "sleep" /\ proc["sched"].wake > now
        /\ batchLog["sched"].st = "done"
        /\ now % MinuteLen > 0

\* C8  Checkpoint firing is bounded: while the loop has not stopped, every
\* checkpoint has started a run on every day that is over, and a run has
\* started within PollInterval of the checkpoint's time when the loop was
\* Idle at that time.
C8_FiresEveryDay ==
    proc["sched"].pc # "Stopped" =>
        \A cp \in SYNC_TIMES :
            /\ Day(now) > Day(StartTime) => fires[cp].day >= Day(now) - 1
            /\ (/\ fires[cp].idleDay = Day(now)
                /\ now > Day(now) * DayLen + cp * MinuteLen + PollInterval)
               => fires[cp].day = Day(now)

\* C9  Midnight reset: once the minute 00:00 of a day is over, SYNCED_TODAY
\* holds no checkpoint consumed on an earlier day (so that the checkpoint
\* fires again), while the loop has not stopped.
C9_MidnightReset ==
    (proc["sched"].pc # "Stopped" /\ Minute(now) # Midnight) =>
        \A cp \in SYNCED_TODAY : fires[cp].day = Day(now)


\* C11 as stated  acquire() blocks a caller for at most min_interval, however
\* many callers wait.
C11_BlocksAtMostAny ==
    \A p \in Procs : InAcquire(proc[p]) => proc[p].blocked <= min_interval

\* C11 amended  acquire() blocks a caller that never had to wait for the lock
\* for at most min_interval.
C11_BlocksAtMost ==
    \A p \in Procs :
        (InAcquire(proc[p]) /\ ~proc[p].contended) => proc[p].blocked <= min_interval

\* a caller that got the lock at once has slept the whole min_interval,
\* the other caller waiting for the lock
C11_Witness ==
    \E p, q \in Procs :
        /\ proc[p].pc = "lim_sleep" /\ ~proc[p].contended
        /\ proc[p].blocked = min_interval
        /\ proc[q].pc = "lim_wait" /\ proc[q].contended

\* C12  Each provider call consumes exactly one slot of the RateLimiter: the
\* grants of acquire() are as many as the provider calls issued (first
\* attempts and retries), in a single sync and in a batch alike.
C12_OneSlotPerAttempt == grant.n = tries.n

\* C13  Retry policy: fetch_with_retry does not call the provider again
\* after a permanent failure (NotFound), and it makes at most max_retries
\* provider calls for one fetch.
C13_RetryPolicy ==
    \A p \in Procs :
        /\ proc[p].pc = "backoff" => proc[p].e \notin Permanent
        /\ InSync(proc[p]) => proc[p].attempt < max_retries

\* C14  Backoff delays: the wait before the first retry is 2 seconds, each
\* later wait is twice the one before, and no wait is longer than 30 seconds.
C14_BackoffDelays ==
    [][\A p \in Procs :
          (proc[p].pc = "fetch" /\ proc'[p].pc = "backoff")
          => proc'[p].wake - now = Min2(30, 2 * Pow(2, proc[p].attempt))]_vars

\* C15  Date range of a sync: the range it asks the provider for starts at
\* the inception date when the fund has no cached row and on the day after
\* the latest cached date otherwise, and ends today: no date at or before the
\* latest cached date is asked for.
C15_DateRange ==
    [][\A p \in Procs :
          (proc[p].pc = "sync" /\ proc'[p].pc = "lim_wait" /\ proc'[p].ctx = "fetch")
          => LET cached == Dates(prices[proc[p].fund])
             IN /\ proc'[p].to = Day(now)
                /\ cached = {} => proc'[p].from = Inception
                /\ cached # {} => proc'[p].from - 1 \in cached
                /\ \A d \in cached : d < proc'[p].from]_vars

\* the provider call of an incremental sync is in flight: rows are cached and
\* the range starts after the latest of them, not after today
C15_Witness ==
    \E p \in Procs :
        /\ proc[p].pc = "fetch"
        /\ prices[proc[p].fund] # <<>>
        /\ proc[p].from = get_latest_price_date(proc[p].fund) + 1
        /\ Inception < proc[p].from /\ proc[p].from <= proc[p].to

\* C16  SyncMeta reflects the last fetch: when a sync that has called the
\* provider returns, the fund's cache_meta row is synced with no error after
\* a successful fetch, and failed with the error stored after a failed one;
\* the failed sync leaves the cached rows and last_sync_date alone.
C16_MetaReflectsFetch ==
    [][\A p \in Procs :
          (proc[p].pc = "fetch" /\ proc'[p].pc \notin {"fetch", "backoff"})
          => LET f == proc[p].fund
             IN IF outcome'[p].err = "none"
                  THEN /\ meta'[f].sync_status = "synced"
                       /\ meta'[f].error_message = "none"
                  ELSE /\ meta'[f].sync_status = "failed"
                       /\ meta'[f].error_message = outcome'[p].err
                       /\ meta'[f].last_sync_date = meta[f].last_sync_date
                       /\ prices' = prices]_vars

\* a sync has failed for a fund that had rows cached and a last_sync_date
C16_Witness ==
    \E p \in Procs :
        /\ outcome[p].err # "none"
        /\ prices[outcome[p].fund] # <<>>
        /\ meta[outcome[p].fund].sync_status = "failed"
        /\ meta[outcome[p].fund].error_message = outcome[p].err
        /\ meta[outcome[p].fund].last_sync_date # NoDate

\* C17  Scheduler run: a checkpoint run takes the loop from Idle to Running
\* and back to Idle, failed funds or not (the loop never stops); while Running
\* it calls sync_fund_history once for every tracked fund, one at a time and
\* in order; when the run is over the checkpoint is consumed; no sync of the
\* checkpoint path is under way while the loop is Idle.
C17_SchedulerRun ==
    LET r == proc["sched"]
        log == batchLog["sched"]
    IN /\ r.pc # "Stopped"
       /\ r.pc = "sleep" => log.st \in {"none", "done"}
       /\ InSync(r) =>
            /\ r.mode = "checkpoint" /\ log.st = "running"
            /\ \A i \in DOMAIN funds : log.res[funds[i]] # "none" <=> i < r.idx
       /\ log.st = "done" =>
            /\ \A i \in DOMAIN funds : log.res[funds[i]] # "none"
            /\ \E cp \in SYNC_TIMES : fires[cp].day # 0

\* C18  A refresh-all is not gated by SYNCED_TODAY and leaves it alone: when
\* batch_sync_funds is over it has called the sync of every tracked fund,
\* whatever the set held, and the set changes in steps of the scheduler loop
\* only (so a refresh neither consumes a checkpoint nor gives one back).
C18_RefreshNotGated ==
    /\ [](batchLog["user"].st = "done" =>
             \A i \in DOMAIN funds : batchLog["user"].res[funds[i]] # "none")
    /\ [][(/\ proc'["sched"].pc = proc["sched"].pc
            /\ proc'["sched"].idx = proc["sched"].idx
            /\ proc'["sched"].wake = proc["sched"].wake)
           => SYNCED_TODAY' = SYNCED_TODAY]_vars

\* a refresh-all is over, a checkpoint of today being consumed and the loop
\* Idle
C18_Witness ==
    /\ batchLog["user"].st = "done"
    /\ outcome["user"].fund # 0
    /\ SYNCED_TODAY # {}
    /\ proc["sched"].pc = "sleep"

\* C19  Concurrent syncs of one fund (the checkpoint run and an explicit
\* request): a sync that ends well leaves every date the provider returned to
\* it cached in exactly one row, no step takes a cached row away, and every
\* change of the fund's cache_meta row is the whole write of one sync (synced
\* with its date and no error, or failed with its error and the date kept).
C19_ConcurrentSync ==
    [][/\ \A p \in Procs :
            (proc[p].pc = "fetch" /\ proc'[p].pc \notin {"fetch", "backoff"}
                /\ outcome'[p].err = "none")
            => LET f == proc[p].fund
               IN \A d \in published[f] :
                     (proc[p].from <= d /\ d <= proc[p].to)
                     => Cardinality({i \in DOMAIN prices'[f] : prices'[f][i].date = d}) = 1
       /\ \A f \in Funds :
            /\ Len(prices[f]) <= Len(prices'[f])
            /\ \A i \in DOMAIN prices[f] : prices'[f][i] = prices[f][i]
            /\ meta'[f] # meta[f] =>
                 \E p \in Procs :
                    /\ proc[p].pc = "fetch" /\ proc[p].fund = f
                    /\ outcome'[p].fund = f
                    /\ IF outcome'[p].err = "none"
                         THEN /\ meta'[f].sync_status = "synced"
                              /\ meta'[f].error_message = "none"
                              /\ meta'[f].last_sync_date \in
                                    (proc[p].from..proc[p].to) \cup {proc[p].to}
                         ELSE meta'[f] = [last_sync_date |-> meta[f].last_sync_date,
                                          sync_status |-> "failed",
                                          error_message |-> outcome'[p].err]]_vars

\* the checkpoint run and the user's sync of the same fund have both fetched
\* and ended, one of them having been returned a point the other had cached
C19_Witness ==
    /\ outcome["sched"].fund # 0
    /\ outcome["sched"].fund = outcome["user"].fund
    /\ \A p \in Procs : outcome[p].fetched /\ outcome[p].err = "none" /\ ~InSync(proc[p])
    /\ \E p \in Procs : outcome[p].skipped > 0 /\ outcome[p].changed

\* C20  Cancellation keeps SyncMeta consistent: every cache_meta row is a
\* whole one at all times (pending with no date and no error, synced with a
\* date and no error, or failed with its error), and once the cancellation
\* signal is set the call site starts no further retry and no sync of a
\* further fund.
C20_Cancellation ==
    /\ [](\A f \in Funds :
             \/ meta[f].sync_status = "pending"
                  /\ meta[f].last_sync_date = NoDate /\ meta[f].error_message = "none"
             \/ meta[f].sync_status = "synced"
                  /\ meta[f].last_sync_date # NoDate /\ meta[f].error_message = "none"
             \/ meta[f].sync_status = "failed" /\ meta[f].error_message \in Errors)
    /\ [][\A p \in Procs :
            proc[p].cancel =>
                /\ proc'[p].attempt <= proc[p].attempt
                /\ proc'[p].idx <= proc[p].idx
                /\ (proc[p].pc = "backoff" /\ proc'[p].pc # "backoff")
                       => ~InSync(proc'[p])]_vars

\* a refresh-all was cancelled during the fetch of its first fund: the row
\* of the first fund is the one the sync wrote, the second fund was not synced
C20_Witness ==
    /\ batchLog["user"].st = "cancelled"
    /\ proc["user"].pc = "idle"
    /\ outcome["user"].fund = funds[1] /\ outcome["user"].fetched
    /\ meta[funds[1]].sync_status = "synced"
    /\ meta[funds[2]].sync_status = "pending"

\* C21: a cached point never changes.  Every row of the table prices is, for
\* its (fund, date), the only row of that date in the next state and has the
\* same net_value, accum_value and growth_rate there, whatever the step: a
\* sync, a forced sync, or a response that carries another value for the date.
C21_HistoryImmutable ==
    [][\A f \in Funds : \A i \in DOMAIN prices[f] :
          /\ \E j \in DOMAIN prices'[f] : prices'[f][j].date = prices[f][i].date
          /\ \A j \in DOMAIN prices'[f] :
                prices'[f][j].date = prices[f][i].date =>
                    /\ prices'[f][j].net_value = prices[f][i].net_value
                    /\ prices'[f][j].accum_value = prices[f][i].accum_value
                    /\ prices'[f][j].growth_rate = prices[f][i].growth_rate]_vars

\* a response with a changed value for a cached date has been merged
C21_Witness ==
    \E p \in Procs :
        /\ outcome[p].revised
        /\ outcome[p].skipped > 0
        /\ prices[outcome[p].fund] # <<>>

\* C22: readRange (db.get_prices) returns the cached points of the range in
\* strictly ascending order of date, whatever the order they were inserted
\* in, and nothing else: each returned point is a cached row of the range,
\* each cached date of the range is returned, no date without a row is.
C22_ReadRangeAscending ==
    [][reply'.n # reply.n =>
          LET data == reply'.data
              f == reply'.fund
          IN /\ \A i \in DOMAIN data : \A j \in DOMAIN data :
                    i < j => data[i].date < data[j].date
             /\ \A i \in DOMAIN data :
                    /\ reply'.from <= data[i].date /\ data[i].date <= reply'.to
                    /\ \E k \in DOMAIN prices[f] : prices[f][k] = data[i]
             /\ Dates(data) = {d \in Dates(prices[f]) : reply'.from <= d /\ d <= reply'.to}]_vars

\* a range read whose rows were inserted in descending order, around a date
\* that has no point
C22_Witness ==
    /\ reply.n > 0
    /\ Len(reply.data) = 2
    /\ reply.data[2].date - reply.data[1].date > 1
    /\ reply.data[1] = prices[reply.fund][2]
    /\ reply.data[2] = prices[reply.fund][1]

\* C24: the history endpoint answers from the cache.  The step that answers
\* reads the rows cached at that moment and makes no provider call and no
\* write; when force_refresh is set or the fund needs a sync it leaves a sync
\* of the fund started and not yet run, and the response is there all the same.
C24_AnswersFromCache ==
    [][reply'.n # reply.n =>
          /\ reply'.data = get_prices(reply'.fund, reply'.from, reply'.to)
          /\ UNCHANGED <<cacheVars, limVars, now>>
          /\ (reply'.force_refresh \/ reply'.need_sync) =>
                /\ proc'["user"].pc = "sync"
                /\ proc'["user"].fund = reply'.fund
                /\ proc["user"].pc = "idle"]_vars

\* a forced request was answered with the rows cached then, and the sync it
\* started is still under way, its first provider call having failed
C24_Witness ==
    /\ reply.n > 0
    /\ reply.force_refresh /\ ~reply.need_sync
    /\ reply.data # <<>>
    /\ proc["user"].pc = "backoff"
    /\ proc["user"].fund = reply.fund

\* the sum of the values at the indices a..b
RECURSIVE SumOf(_, _, _)
SumOf(values, a, b) == IF a > b THEN 0 ELSE values[a] + SumOf(values, a + 1, b)

\* C23: MA(n) has one entry per index of the series; counting indices from 1,
\* the entry is absent exactly at the first n - 1 of them, and at every index
\* i >= n it is the arithmetic mean of the n values at i - n + 1 .. i.
C23_MovingAverage ==
    ind.done =>
        /\ Len(ind.ma) = Len(ind.values)
        /\ \A i \in DOMAIN ind.ma :
              /\ (ind.ma[i] = Absent) <=> (i <= ind.n - 1)
              /\ i >= ind.n =>
                    /\ ind.ma[i].den = ind.n
                    /\ ind.ma[i].num = SumOf(ind.values, i - ind.n + 1, i)

\* MA(3) of a series of seven points that are not all equal: absent at the
\* first two indices, a mean with a fractional part at the last one
C23_Witness ==
    /\ ind.done
    /\ ind.n = 3
    /\ Len(ind.values) = 7
    /\ ind.ma[1] = Absent /\ ind.ma[2] = Absent
    /\ \A i \in 3..7 : ind.ma[i] # Absent
    /\ ind.ma[7].num % 3 # 0
    /\ ind.ma[7] # ind.ma[3]
    /\ ~ind.shown.dash

\* C25: an explicit refresh surfaces its failure.  When the sync-all request
\* of the refresh has failed, handleRefresh has shown an error message with
\* the text of that error (or the default text when it has none) and not the
\* success message, and refreshing is false; it is false after a success too.
C25_RefreshSurfacesFailure ==
    /\ vue.err.failed =>
          /\ vue.toast = [kind |-> "error", text |-> ErrorText(vue.err.msg)]
          /\ ~vue.refreshing
    /\ vue.toast.kind = "success" => ~vue.refreshing /\ ~vue.err.failed
    /\ vue.refreshing <=> \E t \in vue.tasks : t.caller = "refresh"

\* the sync-all request of a refresh has failed with a message of its own
\* while a fund was selected
C25_Witness ==
    /\ vue.err.failed
    /\ vue.err.msg = "timeout"
    /\ vue.toast.text = "timeout"
    /\ vue.currentFund # 0
    /\ ~vue.refreshing

\* C27: while the detail view is routed to a fund, aiAnalysis is null or the
\* analysis of that fund.
C27_AnalysisOfRoutedFund ==
    vue.route # Home => vue.aiAnalysis \in {0, vue.route}

\* C28: once every request has settled, none having failed, currentFund,
\* chartData, recentTrades and etfData belong to the fund selectFund was last
\* called for.
C28_SettledOnLastSelected ==
    (vue.tasks = {} /\ vue.selected # 0 /\ ~vue.failed) =>
        /\ vue.currentFund = vue.selected
        /\ vue.chartData = vue.selected
        /\ vue.recentTrades = vue.selected
        /\ vue.etfData = related_etf(vue.selected)

\* C26: on the static page, the answer of a suggestion asked for one fund
\* that arrives while another fund is selected leaves the AI result area as
\* it is, be the answer a result, a reported error or a thrown error.
C26_StaleAnswerIgnored ==
    [][\A t \in page.tasks :
          (t.kind = "suggest" /\ t \notin page'.tasks /\ t.code # page.currentFundCode)
              => page'.aiResult = page.aiResult]_vars

\* C29: once the timer and the requests of the search box have settled, none
\* having failed, searchResults holds the results of the keyword entered
\* last, and is empty when that keyword has fewer than 2 characters; an input
\* that arrives while the timer of the previous one is pending cancels it, so
\* that no request is sent for the previous keyword.
C29_SearchSettles ==
    /\ []((~list.searchTimeout.on /\ list.tasks = {} /\ ~list.failed) =>
             list.searchResults = IF TooShort(list.last) THEN {} ELSE {list.last})
    /\ [][(list.searchTimeout.on /\ list'.last # list.last) =>
             /\ list'.tasks = list.tasks
             /\ list'.searchTimeout.on => list'.searchTimeout.keyword = list'.last]_vars

\* C30: a submit with an empty fund code sends no request and leaves the
\* dialog open; when the add has succeeded the dialog is closed and the route
\* is the detail route of the code that was submitted; when it has failed the
\* dialog is as it was, the route has not changed and loading is false.
C30_SubmitOutcomes ==
    [][dialog' # dialog =>
          /\ dialog'.event = "empty" =>
                dialog'.tasks = {} /\ dialog'.dialogVisible
          /\ dialog'.event = "added" =>
                /\ ~dialog'.dialogVisible
                /\ dialog'.route = DetailRoute(dialog'.submitted)
                /\ ~dialog'.loading
          /\ dialog'.event = "failed" =>
                /\ dialog'.dialogVisible = dialog.dialogVisible
                /\ dialog'.route = dialog.route
                /\ ~dialog'.loading]_vars

====
